---- MODULE Spec2Model ----
(***************************************************************************)
(* Model of HOPE_5_CVD_RC.py: the SMART-2 risk calculation                 *)
(* (calculate_smart2_risk) and the part of main() that reads the widgets   *)
(* into st.session_state and renders the two tabs.                         *)
(*                                                                         *)
(* Numbers.  Every Python number held in a profile field is kept in        *)
(* tenths (age 65 is 650, LDL 3.5 is 35), the linear predictor lp in units *)
(* of 1e-5 (all coefficients have four decimals, inputs one), and the two  *)
(* powers of 2.71828 in fixed point with eight decimals.  The returned     *)
(* risk is a number of tenths of a percent (16.2 % is 162).                *)
(***************************************************************************)
EXTENDS Integers, Sequences, FiniteSets, TLC

VARIABLES session_state, risk, tab1, tab2, edits, memo, raw, result

vars == <<session_state, risk, tab1, tab2, edits, memo, raw, result>>

(***************************************************************************)
(* Python values a session field can hold.                                 *)
(***************************************************************************)
Tenths(d) == [t |-> "num", n |-> d]
Num(x) == Tenths(10 * x)
Bool(b) == [t |-> "bool", n |-> IF b THEN 10 ELSE 0]
Str == [t |-> "str", n |-> 0]
NoneV == [t |-> "none", n |-> 0]
Missing == [t |-> "missing", n |-> 0]
SexMissing == "<missing>"

Fields == {"age", "sex", "diabetes", "smoker", "egfr", "ldl", "sbp", "cad", "stroke", "pad"}
NumericFields == {"age", "egfr", "ldl", "sbp"}
FlagFields == {"diabetes", "smoker", "cad", "stroke", "pad"}

Default ==
  [age |-> Num(65), sex |-> "Male", diabetes |-> Bool(FALSE), smoker |-> Bool(FALSE),
   egfr |-> Num(90), ldl |-> Tenths(35), sbp |-> Num(140),
   cad |-> Bool(FALSE), stroke |-> Bool(FALSE), pad |-> Bool(FALSE)]

(***************************************************************************)
(* Python operations used by calculate_smart2_risk.                        *)
(***************************************************************************)
(* Flags and their count are in tenths like every number: True is 10, so   *)
(* a count of 2 is 20.                                                     *)
IsMissing(s, f) == IF f = "sex" THEN s[f] = SexMissing ELSE s[f].t = "missing"
FloatOk(v) == v.t \in {"num", "bool"}
Truthy(v) == IF v.t = "str" THEN TRUE ELSE v.n # 0
SumOk(s) == \A f \in {"cad", "stroke", "pad"} : s[f].t \in {"num", "bool"}
(* Mutant: the stroke flag left out of the count. *)
vasc_count_NoStroke(s) == s.cad.n + s.pad.n

vasc_count(s) == s.cad.n + s.stroke.n + s.pad.n

egfr_lt_30(egfr) == IF egfr < 300 THEN 92350 ELSE 0
(* Mutant: the lower bin boundary made exclusive. *)
egfr_30_60_Exclusive(egfr) == IF 300 < egfr /\ egfr < 600 THEN 55390 ELSE 0

egfr_30_60(egfr) == IF 300 <= egfr /\ egfr < 600 THEN 55390 ELSE 0

coefficients(s) ==
  [intercept |-> -819370,
   age |-> 635 * (s.age.n - 600),
   female |-> IF s.sex = "Female" THEN -33720 ELSE 0,
   diabetes |-> IF Truthy(s.diabetes) THEN 50340 ELSE 0,
   smoker |-> IF Truthy(s.smoker) THEN 78620 ELSE 0,
   egfr_lt_30 |-> egfr_lt_30(s.egfr.n),
   egfr_30_60 |-> egfr_30_60(s.egfr.n),
   polyvascular |-> IF vasc_count(s) >= 20 THEN 54340 ELSE 0,
   ldl |-> 2436 * (s.ldl.n - 25),
   sbp |-> 83 * (s.sbp.n - 1200)]

(* Mutant: the sbp term left out of the sum. *)
lp_NoSbp(s) ==
  LET c == coefficients(s) IN
    c.intercept + c.age + c.female + c.diabetes + c.smoker + c.egfr_lt_30
      + c.egfr_30_60 + c.polyvascular + c.ldl

lp(s) ==
  LET c == coefficients(s) IN
    c.intercept + c.age + c.female + c.diabetes + c.smoker + c.egfr_lt_30
      + c.egfr_30_60 + c.polyvascular + c.ldl + c.sbp

(***************************************************************************)
(* 2.71828 ** x in fixed point.  E^x = exp(x * ln 2.71828), and            *)
(* exp(z) = 2^n * exp(r) with z = n * ln 2 + r, 0 <= r < ln 2.             *)
(***************************************************************************)
Scale == 100000000
Half == 10000
Ln2 == 69314718
LnEDefect == 673
Terms == 12
MaxLp == 70978319
MinLp == -2000000

MulFix(a, b) ==
  LET ah == a \div Half
      al == a % Half
      bh == b \div Half
      bl == b % Half
  IN ah * bh + (ah * bl + al * bh + (al * bl) \div Half + Half \div 2) \div Half

RECURSIVE Horner(_, _, _)
Horner(r, k, acc) ==
  IF k = 0 THEN acc ELSE Horner(r, k - 1, Scale + (MulFix(r, acc) + k \div 2) \div k)

ExpFrac(r) == Horner(r, Terms, Scale)

TimesLnE(a) ==
  LET m == IF a < 0 THEN -a ELSE a
      d == ((m \div 1000) * LnEDefect + 500000) \div 1000000
  IN IF a < 0 THEN a + d ELSE a - d

ExpTimes(m, z) ==
  LET n == z \div Ln2
      r == z - n * Ln2
  IN IF n >= 0 THEN m * ExpFrac(r) * 2^n
     ELSE (m * ExpFrac(r) + 2^(-n - 1)) \div 2^(-n)

PowOverflows(L) == L > MaxLp

risk_percent(L) ==
  IF L < MinLp THEN 0
  ELSE LET z == TimesLnE(L * 1000) IN
    IF z >= Ln2 THEN Scale
    ELSE Scale - ExpTimes(1, -TimesLnE(ExpTimes(10, z)))

Round1(x) ==
  LET q == x \div 100000
      rem == x % 100000
  IN IF rem > 50000 \/ (rem = 50000 /\ q % 2 = 1) THEN q + 1 ELSE q

Max(a, b) == IF a >= b THEN a ELSE b
Min(a, b) == IF a <= b THEN a ELSE b

(* Mutants: the lower clamp, and the upper clamp, left out. *)
ClampRound_NoFloor(x) == Min(990, Round1(x))
ClampRound_NoCeiling(x) == Max(10, Round1(x))

ClampRound(x) == Max(10, Min(990, Round1(x)))

Raises(s) ==
  \/ \E f \in Fields : IsMissing(s, f)
  \/ \E f \in NumericFields : ~FloatOk(s[f])
  \/ ~SumOk(s)
  \/ PowOverflows(lp(s))

(* Mutant: a predictor that accumulates over the calls made so far. *)
calculate_smart2_risk_Accumulating(s) ==
  IF Raises(s) THEN NoneV ELSE Tenths(ClampRound(risk_percent(lp(s) + 100000 * edits)))

calculate_smart2_risk(s) ==
  IF Raises(s) THEN NoneV ELSE Tenths(ClampRound(risk_percent(lp(s))))

(***************************************************************************)
(* main(): the two tabs.                                                   *)
(***************************************************************************)
(* Mutant: the two tier tests in the wrong order. *)
Tab1_ElifOrder(r) ==
  IF r # NoneV
  THEN IF r.n >= 200 THEN "high" ELSE IF r.n >= 300 THEN "veryHigh" ELSE "moderate"
  ELSE "prompt"

Tab1(r) ==
  IF r # NoneV
  THEN IF r.n >= 300 THEN "veryHigh" ELSE IF r.n >= 200 THEN "high" ELSE "moderate"
  ELSE "prompt"

Tab2(r) ==
  IF r # NoneV
  THEN IF r.n >= 300 THEN "veryHigh" ELSE IF r.n >= 200 THEN "high" ELSE "moderate"
  ELSE "info"

main(s) ==
  /\ session_state' = s
  /\ risk' = calculate_smart2_risk(s)
  /\ tab1' = Tab1(risk')
  /\ tab2' = Tab2(risk')

Init ==
  /\ edits = 0
  /\ session_state = Default
  /\ risk = calculate_smart2_risk(Default)
  /\ tab1 = Tab1(risk)
  /\ tab2 = Tab2(risk)
  /\ memo = [profile |-> Default, risk |-> risk, at |-> 0]
  /\ raw = 0
  /\ result = NoneV


(***************************************************************************)
(* The application: one rerun of main() per widget interaction.  A widget  *)
(* returns a value of its own range and type (lines 72-88).                *)
(***************************************************************************)
AgeChoices == {Num(30), Num(65), Num(90)}
EgfrChoices == {Num(15), Num(29), Num(30), Num(59), Num(60), Num(90), Num(120)}
LdlChoices == {Tenths(35), Tenths(100)}
SbpChoices == {Num(140), Num(220)}

AgeSlider ==
  \E v \in AgeChoices :
    /\ v # session_state.age
    /\ main([session_state EXCEPT !.age = v])
    /\ UNCHANGED <<edits, memo, raw, result>>

SexRadio ==
  \E v \in {"Male", "Female"} :
    /\ v # session_state.sex
    /\ main([session_state EXCEPT !.sex = v])
    /\ UNCHANGED <<edits, memo, raw, result>>

DiabetesCheckbox ==
  /\ main([session_state EXCEPT !.diabetes = Bool(~Truthy(session_state.diabetes))])
  /\ UNCHANGED <<edits, memo, raw, result>>

SmokerCheckbox ==
  /\ main([session_state EXCEPT !.smoker = Bool(~Truthy(session_state.smoker))])
  /\ UNCHANGED <<edits, memo, raw, result>>

EgfrSlider ==
  \E v \in EgfrChoices :
    /\ v # session_state.egfr
    /\ main([session_state EXCEPT !.egfr = v])
    /\ UNCHANGED <<edits, memo, raw, result>>

LdlInput ==
  \E v \in LdlChoices :
    /\ v # session_state.ldl
    /\ main([session_state EXCEPT !.ldl = v])
    /\ UNCHANGED <<edits, memo, raw, result>>

SbpInput ==
  \E v \in SbpChoices :
    /\ v # session_state.sbp
    /\ main([session_state EXCEPT !.sbp = v])
    /\ UNCHANGED <<edits, memo, raw, result>>

CadCheckbox ==
  /\ main([session_state EXCEPT !.cad = Bool(~Truthy(session_state.cad))])
  /\ UNCHANGED <<edits, memo, raw, result>>

StrokeCheckbox ==
  /\ main([session_state EXCEPT !.stroke = Bool(~Truthy(session_state.stroke))])
  /\ UNCHANGED <<edits, memo, raw, result>>

PadCheckbox ==
  /\ main([session_state EXCEPT !.pad = Bool(~Truthy(session_state.pad))])
  /\ UNCHANGED <<edits, memo, raw, result>>

Next ==
  \/ AgeSlider
  \/ SexRadio
  \/ DiabetesCheckbox
  \/ SmokerCheckbox
  \/ EgfrSlider
  \/ LdlInput
  \/ SbpInput
  \/ CadCheckbox
  \/ StrokeCheckbox
  \/ PadCheckbox

Spec == Init /\ [][Next]_vars

(***************************************************************************)
(* calculate_smart2_risk over arbitrary session contents: a caller assigns *)
(* any Python value to a field (or deletes it) and the function is called  *)
(* and its result rendered.  At most MaxEdits assignments from the         *)
(* defaults.                                                               *)
(***************************************************************************)
MaxEdits == 2

CoreValues(f) ==
  CASE f = "age" -> {Num(30), Num(65), Num(90), Num(120), Num(12000), Str, NoneV, Missing}
    [] f = "egfr" -> {Num(15), Num(29), Num(30), Num(59), Num(60), Num(90), Str, Missing}
    [] f = "ldl" -> {Tenths(10), Tenths(35), Tenths(100), Str, Missing}
    [] f = "sbp" -> {Num(90), Num(140), Num(220), Str, Missing}
    [] f = "sex" -> {"Male", "Female", "Other", SexMissing}
    [] f = "diabetes" -> {Bool(FALSE), Bool(TRUE), Str, NoneV, Missing}
    [] f = "smoker" -> {Bool(FALSE), Bool(TRUE), Str, Missing}
    [] f = "cad" -> {Bool(FALSE), Bool(TRUE), Str, NoneV, Missing}
    [] f = "stroke" -> {Bool(FALSE), Bool(TRUE), Missing}
    [] f = "pad" -> {Bool(FALSE), Bool(TRUE), Missing}

CallWith ==
  \E f \in Fields : \E v \in CoreValues(f) :
    /\ edits < MaxEdits
    /\ v # session_state[f]
    /\ main([session_state EXCEPT ![f] = v])
    /\ edits' = edits + 1
    /\ UNCHANGED <<memo, raw, result>>

NextCore == CallWith

SpecCore == Init /\ [][NextCore]_vars

(***************************************************************************)
(* Repeated calls: at most MaxCalls calls on a small set of profiles, with *)
(* one earlier call (its profile, its result and its index) remembered for *)
(* comparison.                                                             *)
(***************************************************************************)
MaxCalls == 4

PureValues(f) ==
  CASE f = "age" -> {Num(65), Num(12000)}
    [] f = "sex" -> {"Male", "Female"}
    [] f = "egfr" -> {Num(90), Num(45)}
    [] f \in {"diabetes", "cad"} -> {Bool(FALSE), Bool(TRUE)}

PureCall ==
  \E f \in {"age", "sex", "egfr", "diabetes", "cad"} : \E v \in PureValues(f) :
    /\ edits < MaxCalls
    /\ v # session_state[f]
    /\ main([session_state EXCEPT ![f] = v])
    /\ edits' = edits + 1
    /\ UNCHANGED <<memo, raw, result>>

Remember ==
  /\ memo' = [profile |-> session_state, risk |-> risk, at |-> edits]
  /\ memo' # memo
  /\ UNCHANGED <<session_state, risk, tab1, tab2, edits, raw, result>>

NextPure == PureCall \/ Remember

SpecPure == Init /\ [][NextPure]_vars

(***************************************************************************)
(* Single runs of main() on given profiles: the numeric fields of the      *)
(* defaults and of the documented scenarios, with every combination of sex *)
(* and the five flags.  Nothing is rendered before the run.                *)
(***************************************************************************)
Row(age, egfr, ldl, sbp) == [age |-> Num(age), egfr |-> Num(egfr), ldl |-> Tenths(ldl), sbp |-> Num(sbp)]

CaseRows == {Row(65, 90, 35, 140), Row(60, 90, 25, 120), Row(75, 45, 45, 160),
             Row(30, 15, 10, 90), Row(90, 120, 100, 220)}

CaseProfiles ==
  {[age |-> r.age, sex |-> x, diabetes |-> Bool(d), smoker |-> Bool(k), egfr |-> r.egfr,
    ldl |-> r.ldl, sbp |-> r.sbp, cad |-> Bool(c), stroke |-> Bool(t), pad |-> Bool(p)] :
     r \in CaseRows, x \in {"Male", "Female"}, d \in BOOLEAN, k \in BOOLEAN,
     c \in BOOLEAN, t \in BOOLEAN, p \in BOOLEAN}

InitCases ==
  /\ edits = 0
  /\ session_state \in CaseProfiles
  /\ risk = NoneV
  /\ tab1 = "blank"
  /\ tab2 = "blank"
  /\ memo = [profile |-> Default, risk |-> NoneV, at |-> 0]
  /\ raw = 0
  /\ result = NoneV

RunMain ==
  /\ tab1 = "blank"
  /\ main(session_state)
  /\ UNCHANGED <<edits, memo, raw, result>>

NextCases == RunMain

SpecCases == InitCases /\ [][NextCases]_vars

(***************************************************************************)
(* Line 46 alone: round, then clamp, applied to a raw percentage (held in  *)
(* millionths of a percent).  A raw value exactly half way between two     *)
(* tenths is drawn only where a binary double can hold it (multiples of    *)
(* 0.25).                                                                  *)
(***************************************************************************)
RawStep == 25000

RawInputs ==
  {x \in {k * RawStep : k \in 0..(Scale \div RawStep)} :
     x % 100000 = 50000 => x % 250000 = 0}

InitRound ==
  /\ edits = 0
  /\ session_state = Default
  /\ risk = calculate_smart2_risk(Default)
  /\ tab1 = Tab1(risk)
  /\ tab2 = Tab2(risk)
  /\ memo = [profile |-> Default, risk |-> risk, at |-> 0]
  /\ raw \in RawInputs
  /\ result = NoneV

ReturnLine ==
  /\ result = NoneV
  /\ result' = Tenths(ClampRound(raw))
  /\ UNCHANGED <<session_state, risk, tab1, tab2, edits, memo, raw>>

NextRound == ReturnLine

SpecRound == InitRound /\ [][NextRound]_vars

(***************************************************************************)
(* Properties.                                                             *)
(***************************************************************************)
Present(s) == \A f \in Fields : ~IsMissing(s, f)

WellFormed(s) ==
  /\ Present(s)
  /\ \A f \in NumericFields : s[f].t = "num"
  /\ s.sex \in {"Male", "Female"}
  /\ \A f \in FlagFields : s[f].t = "bool"

Rendered == tab1 # "blank"

(* C1: for every well-formed profile (all fields present, the four numeric *)
(* fields numerically convertible, values outside the clinical ranges      *)
(* included) the result is a defined number with 1.0 <= riskPercent <=     *)
(* 99.0, never None.                                                       *)
C1_DefinedAndInRange ==
  WellFormed(session_state) => (risk # NoneV /\ 10 <= risk.n /\ risk.n <= 990)

(* The same range for the well-formed profiles whose power does not        *)
(* overflow.                                                               *)
InRangeUnlessOverflow ==
  (WellFormed(session_state) /\ ~PowOverflows(lp(session_state)))
    => (risk # NoneV /\ 10 <= risk.n /\ risk.n <= 990)

(* C2: whenever a field is missing or not of its expected type (numeric,   *)
(* sex in {male, female}, boolean flag) the result is None, never a        *)
(* number.                                                                 *)
C2_InvalidGivesUndefined == ~WellFormed(session_state) => risk = NoneV

(* C3: between two well-formed profiles that differ in exactly one field,  *)
(* an increase of age, ldl or systolicBP, a flag going from false to true, *)
(* or a decrease of egfr never lowers riskPercent.                         *)
RiskRaisingChange(s, t) ==
  \E f \in Fields :
    /\ \A g \in Fields \ {f} : s[g] = t[g]
    /\ \/ f \in {"age", "ldl", "sbp"} /\ t[f].n > s[f].n
       \/ f \in FlagFields /\ s[f] = Bool(FALSE) /\ t[f] = Bool(TRUE)
       \/ f = "egfr" /\ t[f].n < s[f].n

C3_Monotone ==
  [][(WellFormed(session_state) /\ WellFormed(session_state')
        /\ RiskRaisingChange(session_state, session_state'))
      => (risk # NoneV /\ risk' # NoneV /\ risk'.n >= risk.n)]_vars

(* The same comparison restricted to pairs whose two results are numbers.  *)
MonotoneWhereDefined ==
  [][(WellFormed(session_state) /\ WellFormed(session_state')
        /\ RiskRaisingChange(session_state, session_state')
        /\ risk # NoneV /\ risk' # NoneV)
      => risk'.n >= risk.n]_vars

(* C4: a defined riskPercent is shown as exactly one tier, veryHigh iff    *)
(* >= 30, high iff in [20, 30), moderate iff < 20; both tabs of one run    *)
(* show the same tier; an undefined risk shows no tier and no guidance.    *)
C4_TierConsistency ==
  /\ risk # NoneV =>
       /\ tab1 \in {"veryHigh", "high", "moderate"}
       /\ tab1 = "veryHigh" <=> risk.n >= 300
       /\ tab1 = "high" <=> (200 <= risk.n /\ risk.n < 300)
       /\ tab1 = "moderate" <=> risk.n < 200
       /\ tab2 = tab1
  /\ risk = NoneV => (tab1 = "prompt" /\ tab2 = "info")

C4_HighShown == risk # NoneV /\ 200 <= risk.n /\ risk.n < 300 /\ tab1 = "high" /\ tab2 = "high"

ScenarioB ==
  [age |-> Num(75), sex |-> "Male", diabetes |-> Bool(TRUE), smoker |-> Bool(TRUE),
   egfr |-> Num(45), ldl |-> Tenths(45), sbp |-> Num(160),
   cad |-> Bool(TRUE), stroke |-> Bool(TRUE), pad |-> Bool(FALSE)]

(* C5 as stated: scenario B has vascular territory count 2 and a           *)
(* riskPercent >= 20, tier high or veryHigh.                               *)
C5_ScenarioBHigh ==
  (Rendered /\ session_state = ScenarioB) =>
    /\ vasc_count(session_state) = 20
    /\ risk # NoneV /\ risk.n >= 200
    /\ tab1 \in {"high", "veryHigh"}

(* C5 amended: scenario B has vascular territory count 2 and riskPercent   *)
(* 16.2, which is below 20, so its tier is moderate.                       *)
C5_ScenarioBModerate ==
  (Rendered /\ session_state = ScenarioB) =>
    /\ vasc_count(session_state) = 20
    /\ risk = Tenths(162)
    /\ tab1 = "moderate"

C5_ScenarioBRun == Rendered /\ session_state = ScenarioB

ExtremeHigh(sex) ==
  [age |-> Num(90), sex |-> sex, diabetes |-> Bool(TRUE), smoker |-> Bool(TRUE),
   egfr |-> Num(120), ldl |-> Tenths(100), sbp |-> Num(220),
   cad |-> Bool(TRUE), stroke |-> Bool(TRUE), pad |-> Bool(TRUE)]

(* C6 as stated: with every numeric field at its clinical maximum and      *)
(* every flag true the result clamps to 99.0 and the tier is veryHigh.     *)
C6_ExtremeHighClamps ==
  \A sex \in {"Male", "Female"} :
    (Rendered /\ session_state = ExtremeHigh(sex)) =>
      /\ Round1(risk_percent(lp(session_state))) >= 990
      /\ risk = Tenths(990)
      /\ tab1 = "veryHigh"

(* C6 amended: with every numeric field at its clinical maximum and every  *)
(* flag true the result is 80.9 for a male and 69.3 for a female profile,  *)
(* below the upper clamp 99.0, and the tier is veryHigh.                   *)
C6_ExtremeHighValue ==
  \A sex \in {"Male", "Female"} :
    (Rendered /\ session_state = ExtremeHigh(sex)) =>
      /\ risk = Tenths(IF sex = "Male" THEN 809 ELSE 693)
      /\ risk.n = Round1(risk_percent(lp(session_state)))
      /\ tab1 = "veryHigh"

C6_ExtremeHighRun == Rendered /\ session_state = ExtremeHigh("Male")

ExtremeLow ==
  [age |-> Num(30), sex |-> "Male", diabetes |-> Bool(FALSE), smoker |-> Bool(FALSE),
   egfr |-> Num(15), ldl |-> Tenths(10), sbp |-> Num(90),
   cad |-> Bool(FALSE), stroke |-> Bool(FALSE), pad |-> Bool(FALSE)]

(* C7: with every numeric field at its clinical minimum, every flag false  *)
(* and sex male, the result clamps to 1.0 and the tier is moderate.        *)
C7_ExtremeLowClamps ==
  (Rendered /\ session_state = ExtremeLow) =>
    /\ Round1(risk_percent(lp(session_state))) < 10
    /\ risk = Tenths(10)
    /\ tab1 = "moderate"

C7_ExtremeLowRun == Rendered /\ session_state = ExtremeLow

C9_EgfrBins ==
  LET c == coefficients(session_state)
      e == session_state.egfr.n
  IN /\ c.egfr_lt_30 = 0 \/ c.egfr_30_60 = 0
     /\ e < 300 => (c.egfr_lt_30 = 92350 /\ c.egfr_30_60 = 0)
     /\ (300 <= e /\ e < 600) => (c.egfr_lt_30 = 0 /\ c.egfr_30_60 = 55390)
     /\ e >= 600 => (c.egfr_lt_30 = 0 /\ c.egfr_30_60 = 0)
     /\ lp(session_state) - lp([session_state EXCEPT !.egfr = Num(90)])
          = c.egfr_lt_30 + c.egfr_30_60

C9_EgfrAtThirty ==
  /\ session_state.egfr = Num(30)
  /\ coefficients(session_state).egfr_30_60 = 55390

(* C10: the returned value is the raw percentage clamped to [1.0, 99.0]    *)
(* and then rounded to one decimal; rounding first and clamping second, as *)
(* the code does, gives that same value.                                   *)
C10_ClampThenRound ==
  result # NoneV => result.n = Round1(Max(1000000, Min(99000000, raw)))

C10_ClampActed == result # NoneV /\ Round1(raw) < 10 /\ result.n = 10

====
